---- MODULE Spec2Model ----
(***************************************************************************)
(* Cursor pagination of venom_resource.backends.alchemy.pagination:        *)
(* CursorPagination.paginate_query / get_next_token / get_previous_token,  *)
(* with the token codec (encode_cursor / decode_cursor) modelled down to   *)
(* the characters of the token.                                            *)
(*                                                                         *)
(* Strings (tokens, query strings, positions, names) are sequences of      *)
(* character codes; Python's None is the value None below.                 *)
(***************************************************************************)
EXTENDS Integers, Sequences, FiniteSets, TLC

\* ------------------------------------------------------------------------
\* Characters and strings
\* ------------------------------------------------------------------------

\* The printable ASCII characters, codes 32..126, in code order (code 96, the
\* grave accent, cannot be written in a string and is spelled out).
Printable ==
    <<
       " ", "!", "\"", "#", "$", "%", "&", "'", "(", ")", "*", "+", ",", "-", ".", "/",
       "0", "1", "2", "3", "4", "5", "6", "7", "8", "9", ":", ";", "<", "=", ">", "?",
       "@", "A", "B", "C", "D", "E", "F", "G", "H", "I", "J", "K", "L", "M", "N", "O",
       "P", "Q", "R", "S", "T", "U", "V", "W", "X", "Y", "Z", "[", "\\", "]", "^", "_",
       "<grave>", "a", "b", "c", "d", "e", "f", "g", "h", "i", "j", "k", "l", "m", "n", "o",
       "p", "q", "r", "s", "t", "u", "v", "w", "x", "y", "z", "{", "|", "}", "~"
    >>

\* ord(c) of a printable character, and a string literal as character codes.
Code(c) == 31 + (CHOOSE i \in 1..Len(Printable) : Printable[i] = c)
Str(cs) == [i \in 1..Len(cs) |-> Code(cs[i])]

\* Python's None, for a str-or-None value (no string holds a negative code).
None == << -1 >>
\* An attribute that no paginate_query call has assigned yet.
Unset == << -2 >>

\* Outcome of a call: exc = "" and the value, or the exception raised.
Return(v) == [exc |-> "", val |-> v]
Raise(e) == [exc |-> e, val |-> <<>>]

Reversed(s) == [i \in 1..Len(s) |-> s[Len(s) + 1 - i]]

\* str < str: comparison by code, position by position (also the BINARY
\* collation of the name column).
RECURSIVE StrLess(_, _)
StrLess(a, b) ==
    IF Len(b) = 0 THEN FALSE
    ELSE IF Len(a) = 0 THEN TRUE
    ELSE IF a[1] # b[1] THEN a[1] < b[1]
    ELSE StrLess(Tail(a), Tail(b))

IsDigit(c) == c >= 48 /\ c <= 57
IsSpace(c) == c \in {9, 10, 11, 12, 13, 32}

\* str(n) for an int n >= 0.
RECURSIVE IntToStr(_)
IntToStr(n) ==
    IF n < 10 THEN << 48 + n >> ELSE IntToStr(n \div 10) \o << 48 + (n % 10) >>

\* int(s): surrounding whitespace, an optional sign, then decimal digits that
\* single underscores may separate; ValueError otherwise.
RECURSIVE Strip(_)
Strip(s) ==
    IF Len(s) > 0 /\ IsSpace(s[1]) THEN Strip(Tail(s))
    ELSE IF Len(s) > 0 /\ IsSpace(s[Len(s)]) THEN Strip(SubSeq(s, 1, Len(s) - 1))
    ELSE s

RECURSIVE Digits(_, _, _)
Digits(s, acc, afterDigit) ==
    IF Len(s) = 0 THEN (IF afterDigit THEN Return(acc) ELSE Raise("ValueError"))
    ELSE IF IsDigit(s[1]) THEN Digits(Tail(s), acc * 10 + (s[1] - 48), TRUE)
    ELSE IF s[1] = 95 /\ afterDigit THEN Digits(Tail(s), acc, FALSE)
    ELSE Raise("ValueError")

Signed(s, digits) ==
    IF digits.exc # "" THEN digits
    ELSE IF s[1] = 45 THEN Return(0 - digits.val)
    ELSE digits

Stripped(s) ==
    IF Len(s) > 0 /\ s[1] \in {43, 45} THEN Signed(s, Digits(Tail(s), 0, FALSE))
    ELSE Digits(s, 0, FALSE)

int(string) == Stripped(Strip(string))

\* ------------------------------------------------------------------------
\* base64 (b64encode / b64decode of the standard library, called by
\* encode_cursor and decode_cursor)
\* ------------------------------------------------------------------------

\* The six-bit value of a character of the base64 alphabet; 64 for any other.
B64Value(c) ==
    IF c >= 65 /\ c <= 90 THEN c - 65
    ELSE IF c >= 97 /\ c <= 122 THEN c - 71
    ELSE IF c >= 48 /\ c <= 57 THEN c + 4
    ELSE IF c = 43 THEN 62
    ELSE IF c = 47 THEN 63
    ELSE 64

B64Char(v) ==
    IF v < 26 THEN v + 65
    ELSE IF v < 52 THEN v + 71
    ELSE IF v < 62 THEN v - 4
    ELSE IF v = 62 THEN 43
    ELSE 47

RECURSIVE b64encode(_)
b64encode(data) ==
    IF Len(data) = 0 THEN << >>
    ELSE IF Len(data) = 1 THEN
        << B64Char(data[1] \div 4), B64Char((data[1] % 4) * 16), 61, 61 >>
    ELSE IF Len(data) = 2 THEN
        << B64Char(data[1] \div 4),
           B64Char((data[1] % 4) * 16 + (data[2] \div 16)),
           B64Char((data[2] % 16) * 4), 61 >>
    ELSE
        << B64Char(data[1] \div 4),
           B64Char((data[1] % 4) * 16 + (data[2] \div 16)),
           B64Char((data[2] % 16) * 4 + (data[3] \div 64)),
           B64Char(data[3] % 64) >> \o b64encode(SubSeq(data, 4, Len(data)))

\* b64decode(s) with validate=False: characters outside the alphabet are
\* skipped, a pad that completes a quad ends the input, and an incomplete
\* quad at the end raises binascii.Error (a ValueError).
RECURSIVE a2b_base64(_, _, _, _, _, _)
a2b_base64(ascii, i, quad_pos, leftchar, pads, bin) ==
    IF i > Len(ascii) THEN
        (IF quad_pos # 0 THEN Raise("binascii.Error") ELSE Return(bin))
    ELSE IF ascii[i] = 61 THEN
        IF quad_pos >= 2 /\ quad_pos + pads + 1 >= 4 THEN Return(bin)
        ELSE a2b_base64(ascii, i + 1, quad_pos, leftchar,
                        IF quad_pos >= 2 THEN pads + 1 ELSE pads, bin)
    ELSE IF B64Value(ascii[i]) >= 64 THEN
        a2b_base64(ascii, i + 1, quad_pos, leftchar, pads, bin)
    ELSE
        LET this_ch == B64Value(ascii[i]) IN
        IF quad_pos = 0 THEN a2b_base64(ascii, i + 1, 1, this_ch, 0, bin)
        ELSE IF quad_pos = 1 THEN
            a2b_base64(ascii, i + 1, 2, this_ch % 16, 0,
                       Append(bin, leftchar * 4 + (this_ch \div 16)))
        ELSE IF quad_pos = 2 THEN
            a2b_base64(ascii, i + 1, 3, this_ch % 4, 0,
                       Append(bin, leftchar * 16 + (this_ch \div 4)))
        ELSE
            a2b_base64(ascii, i + 1, 0, 0, 0, Append(bin, leftchar * 64 + this_ch))

b64decode(s) == a2b_base64(s, 1, 0, 0, 0, << >>)

\* str.encode('ascii') / bytes.decode('ascii'): the same codes, or a
\* UnicodeError (a ValueError) when a code is above 127.
AsciiCodec(s, error) ==
    IF \E i \in 1..Len(s) : s[i] > 127 THEN Raise(error) ELSE Return(s)

\* ------------------------------------------------------------------------
\* urllib.parse: urlencode(tokens, doseq=True) and
\* parse_qs(querystring, keep_blank_values=True)
\* ------------------------------------------------------------------------

HexDigit(v) == IF v < 10 THEN 48 + v ELSE 55 + v
HexValue(c) ==
    IF IsDigit(c) THEN c - 48
    ELSE IF c >= 65 /\ c <= 70 THEN c - 55
    ELSE IF c >= 97 /\ c <= 102 THEN c - 87
    ELSE 16

\* quote_plus leaves letters, digits and _ . - ~ alone, writes a space as +
\* and every other character as %XX, byte by byte of its UTF-8 form.
AlwaysSafe(c) ==
    \/ IsDigit(c)
    \/ c >= 65 /\ c <= 90
    \/ c >= 97 /\ c <= 122
    \/ c \in {95, 46, 45, 126}

\* The UTF-8 bytes of a character (codes below 65536).
Utf8(c) ==
    IF c < 128 THEN << c >>
    ELSE IF c < 2048 THEN << 192 + (c \div 64), 128 + (c % 64) >>
    ELSE << 224 + (c \div 4096), 128 + ((c \div 64) % 64), 128 + (c % 64) >>

RECURSIVE PercentBytes(_)
PercentBytes(bs) ==
    IF Len(bs) = 0 THEN << >>
    ELSE << 37, HexDigit(bs[1] \div 16), HexDigit(bs[1] % 16) >> \o PercentBytes(Tail(bs))

RECURSIVE quote_plus(_)
quote_plus(s) ==
    IF Len(s) = 0 THEN << >>
    ELSE (IF AlwaysSafe(s[1]) THEN << s[1] >>
          ELSE IF s[1] = 32 THEN << 43 >>
          ELSE PercentBytes(Utf8(s[1])))
         \o quote_plus(Tail(s))

\* urlencode of a dict given as its items, in insertion order.
RECURSIVE urlencode(_)
urlencode(items) ==
    IF Len(items) = 0 THEN << >>
    ELSE quote_plus(items[1][1]) \o << 61 >> \o quote_plus(items[1][2])
         \o (IF Len(items) > 1 THEN << 38 >> ELSE << >>)
         \o urlencode(Tail(items))

\* The byte that %XX at index i of s stands for; -1 when s has no %XX there.
PercentByte(s, i) ==
    IF Len(s) >= i + 2 /\ s[i] = 37 /\ HexValue(s[i + 1]) < 16 /\ HexValue(s[i + 2]) < 16
    THEN HexValue(s[i + 1]) * 16 + HexValue(s[i + 2])
    ELSE -1

IsContinuation(b) == b >= 128 /\ b <= 191

\* unquote after '+' became a space: a run of %XX is decoded as UTF-8 (one,
\* two or three bytes a character), a byte that starts no character becomes
\* the replacement character U+FFFD, a '%' that two hex digits do not follow
\* stays.
RECURSIVE unquote_plus(_)
unquote_plus(s) ==
    IF Len(s) = 0 THEN << >>
    ELSE
        LET b1 == PercentByte(s, 1)
            b2 == PercentByte(s, 4)
            b3 == PercentByte(s, 7)
        IN  IF b1 < 0 THEN
                << IF s[1] = 43 THEN 32 ELSE s[1] >> \o unquote_plus(Tail(s))
            ELSE IF b1 < 128 THEN
                << b1 >> \o unquote_plus(SubSeq(s, 4, Len(s)))
            ELSE IF b1 >= 194 /\ b1 <= 223 /\ IsContinuation(b2) THEN
                << (b1 - 192) * 64 + (b2 - 128) >> \o unquote_plus(SubSeq(s, 7, Len(s)))
            ELSE IF /\ b1 >= 224 /\ b1 <= 239 /\ IsContinuation(b2) /\ IsContinuation(b3)
                    /\ (b1 = 224 => b2 >= 160) /\ (b1 = 237 => b2 <= 159) THEN
                << (b1 - 224) * 4096 + (b2 - 128) * 64 + (b3 - 128) >>
                \o unquote_plus(SubSeq(s, 10, Len(s)))
            ELSE << 65533 >> \o unquote_plus(SubSeq(s, 4, Len(s)))

\* s.split(sep) for a one-character separator.
RECURSIVE Split(_, _, _)
Split(s, sep, cur) ==
    IF Len(s) = 0 THEN << cur >>
    ELSE IF s[1] = sep THEN << cur >> \o Split(Tail(s), sep, << >>)
    ELSE Split(Tail(s), sep, Append(cur, s[1]))

\* parse_qsl: the (name, value) pairs of the fields between '&'; an empty
\* field is skipped, a field without '=' has the value ''.
RECURSIVE ParsePairs(_)
ParsePairs(fields) ==
    IF Len(fields) = 0 THEN << >>
    ELSE IF Len(fields[1]) = 0 THEN ParsePairs(Tail(fields))
    ELSE
        LET nv == fields[1]
            eq == {i \in 1..Len(nv) : nv[i] = 61}
            at == IF eq = {} THEN Len(nv) + 1
                  ELSE CHOOSE i \in eq : \A j \in eq : i <= j
            name == SubSeq(nv, 1, at - 1)
            value == SubSeq(nv, at + 1, Len(nv))
        IN  << << unquote_plus(name), unquote_plus(value) >> >>
            \o ParsePairs(Tail(fields))

parse_qs(querystring) == ParsePairs(Split(querystring, 38, << >>))

\* tokens.get(key, [default])[0]: the first value parsed for key.
TokensGet(tokens, key, default) ==
    LET at == {i \in 1..Len(tokens) : tokens[i][1] = key} IN
    IF at = {} THEN default
    ELSE tokens[CHOOSE i \in at : \A j \in at : i <= j][2]

\* ------------------------------------------------------------------------
\* Cursor and the token codec
\* ------------------------------------------------------------------------

\* The hard cap on the offset a token may carry.
offset_cutoff == 1000

Cursor(offset, reverse, position) ==
    [offset |-> offset, reverse |-> reverse, position |-> position]

\* self.cursor when decode_cursor returned None (no Cursor has offset -1).
NoCursor == [offset |-> -1, reverse |-> FALSE, position |-> None]

Min(a, b) == IF a <= b THEN a ELSE b

\* _positive_int that leaves the cutoff out.
PositiveUncut(ret, strict, cutoff) ==
    IF ret.exc # "" THEN ret
    ELSE IF ret.val < 0 \/ (ret.val = 0 /\ strict) THEN Raise("ValueError")
    ELSE ret

\* The checks of _positive_int on ret = int(integer_string); cutoff = 0 stands
\* for a falsy cutoff (None or 0).
Positive(ret, strict, cutoff) ==
    IF ret.exc # "" THEN ret
    ELSE IF ret.val < 0 \/ (ret.val = 0 /\ strict) THEN Raise("ValueError")
    ELSE IF cutoff # 0 THEN Return(Min(ret.val, cutoff))
    ELSE ret

_positive_int(integer_string, strict, cutoff) ==
    Positive(int(integer_string), strict, cutoff)

\* The exceptions that `except (TypeError, ValueError)` catches.
IsTypeOrValueError(e) ==
    e \in {"TypeError", "ValueError", "binascii.Error",
           "UnicodeEncodeError", "UnicodeDecodeError"}

\* The keys of a token's query string and the defaults decode_cursor reads.
KeyO == Str(<<"o">>)
KeyR == Str(<<"r">>)
KeyP == Str(<<"p">>)
Zero == Str(<<"0">>)
One == Str(<<"1">>)

\* The body of decode_cursor's try block, statement by statement; the first
\* exception ends it.
DecodeFields(offset, reverse, position) ==
    IF offset.exc # "" THEN offset
    ELSE IF reverse.exc # "" THEN reverse
    ELSE Return(Cursor(offset.val, reverse.val # 0, position))

DecodeTokens(tokens) ==
    DecodeFields(_positive_int(TokensGet(tokens, KeyO, Zero), FALSE, offset_cutoff),
                 int(TokensGet(tokens, KeyR, Zero)),
                 TokensGet(tokens, KeyP, None))

DecodeQuery(querystring) ==
    IF querystring.exc # "" THEN querystring
    ELSE DecodeTokens(parse_qs(querystring.val))

DecodeBytes(bin) ==
    IF bin.exc # "" THEN bin
    ELSE DecodeQuery(AsciiCodec(bin.val, "UnicodeDecodeError"))

DecodeAscii(ascii) ==
    IF ascii.exc # "" THEN ascii ELSE DecodeBytes(b64decode(ascii.val))

DecodeTry(encoded) == DecodeAscii(AsciiCodec(encoded, "UnicodeEncodeError"))

\* except (TypeError, ValueError): raise NotFound(self.invalid_cursor_message)
Except(tried) ==
    IF tried.exc # "" /\ IsTypeOrValueError(tried.exc) THEN Raise("NotFound")
    ELSE tried

decode_cursor(encoded) ==
    IF encoded = None \/ encoded = << >> THEN Return(NoCursor)
    ELSE Except(DecodeTry(encoded))

\* encode_cursor that writes the offset also when it is 0.
encode_cursor_with_offset(cursor) ==
    LET tokens ==
            << << KeyO, IntToStr(cursor.offset) >> >>
            \o (IF cursor.reverse
                THEN << << KeyR, One >> >> ELSE << >>)
            \o (IF cursor.position # None
                THEN << << KeyP, cursor.position >> >> ELSE << >>)
        querystring == urlencode(tokens)
    IN  b64encode(querystring)

encode_cursor(cursor) ==
    LET tokens ==
            (IF cursor.offset # 0
                THEN << << KeyO, IntToStr(cursor.offset) >> >> ELSE << >>)
            \o (IF cursor.reverse
                THEN << << KeyR, One >> >> ELSE << >>)
            \o (IF cursor.position # None
                THEN << << KeyP, cursor.position >> >> ELSE << >>)
        querystring == urlencode(tokens)
    IN  b64encode(querystring)

\* ------------------------------------------------------------------------
\* The paginator, its model class and the query it is given
\* ------------------------------------------------------------------------

VARIABLES
    rows,               \* the table: its rows in insertion order (the snapshot)
    tie_order,          \* how the database orders rows that tie under DESC
    nulls,              \* where the database puts NULL under ASC
    page_size,          \* self.page_size
    ordering,           \* self.ordering
    cursor,             \* self.cursor
    page,               \* self.page
    has_next,           \* self.has_next
    has_previous,       \* self.has_previous
    next_position,      \* self.next_position
    previous_position,  \* self.previous_position
    paginated,          \* a paginate_query call has assigned page, has_next, ...
    token,              \* the page_token of the last paginate_query call
    raised,             \* the exception that call raised, "" when it returned
    getter_raised,      \* the exception the last token getter raised, or ""
    next_token,         \* what get_next_token() returned for the current page
    previous_token,     \* what get_previous_token() returned for the current page
    crafted,            \* a token of the client's own making
    model,              \* the attributes the model class has
    argument,           \* the ordering argument given to the constructor
    constructed,        \* "" before __init__ ran, then "ok" or its exception
    shared,             \* two list requests use this one paginator
    other,              \* the paginator of the second request, when it has its own
    pc,                 \* where each of the two requests stands
    calls,              \* the page tokens of the two requests, the getter of the first
    responses,          \* the pages and the token returned to the two requests
    entity,             \* the attributes of the entity handed to resource.update
    stored,             \* its row as last committed
    changes,            \* the message handed to resource.update
    mask,               \* the paths of the FieldMask handed to resource.update
    outcome,            \* how the latest resource.update ended
    people,             \* how many Person rows exist (ids 1..people)
    taken,              \* the names of the other rows, when name is unique
    written,            \* the writes of other requests to the table
    via,                \* where the client took the token of the current page from
    hops,               \* next-tokens followed since the null token, -1 off that walk
    walked,             \* the pages of that walk, concatenated
    trail               \* the latest visits, the current page first

config == << rows, tie_order, nulls, page_size, ordering, crafted,
            model, argument, constructed >>
attributes == << cursor, page, has_next, has_previous, next_position,
                 previous_position, paginated >>
client == << token, raised, getter_raised, next_token, previous_token,
             via, hops, walked, trail >>
requests == << shared, other, pc, calls, responses >>
updates == << entity, stored, changes, mask, outcome, people, taken >>
writes == << written >>
others == << requests, updates, writes >>
vars == << config, attributes, client, others >>

\* The attributes of the model class Pet of the tests.
ModelFields == {"id", "created_at", "name"}

\* str(attr) of a row's attribute: a name is a str already, an id an int.
StrOf(field, attr) ==
    IF field = "id" THEN IntToStr(attr)
    ELSE IF attr = None THEN Str(<<"N", "o", "n", "e">>)
    ELSE attr

_get_position_from_instance(instance, order) ==
    LET field == order[1].field IN StrOf(field, instance[field])

\* The values an entry's 'ascending' takes are written as Python writes
\* them: "True", "False", "None", "0". bool(value), and `not value`.
Truthy(value) == value \notin {"False", "0", "None", "''"}
Not(value) == IF Truthy(value) THEN "False" ELSE "True"

_reverse_ordering(ordering_tuple) ==
    [i \in 1..Len(ordering_tuple) |->
        [field |-> ordering_tuple[i].field,
         ascending |-> Not(ordering_tuple[i].ascending)]]

\* getattr(model, order['field']) raises AttributeError for an unknown field.
convert_ordering_to_alchmey_clauses(order) ==
    IF \E i \in 1..Len(order) : order[i].field \notin model
    THEN Raise("AttributeError")
    ELSE Return([i \in 1..Len(order) |->
                    [column |-> order[i].field,
                     direction |-> IF Truthy(order[i].ascending) THEN "asc" ELSE "desc"]])

\* The values of a column in increasing order.
RECURSIVE Increasing(_)
Increasing(values) ==
    IF values = {} THEN << >>
    ELSE LET least == CHOOSE v \in values : \A w \in values : w = v \/ StrLess(v, w)
         IN  << least >> \o Increasing(values \ {least})

\* The values of a column in the order of ASC: SQL leaves the place of NULL
\* to the engine, before every value (nulls = "first", as SQLite and MySQL
\* do) or after every value (nulls = "last", as PostgreSQL does).
NullsPlaced(values) ==
    IF None \notin values THEN Increasing(values)
    ELSE IF nulls = "first" THEN << None >> \o Increasing(values \ {None})
    ELSE Increasing(values \ {None}) \o << None >>

\* The rows of rs whose column value is values[1], then values[2], ...; rows of
\* one value in the order of rs.
RECURSIVE GroupBy(_, _, _)
GroupBy(rs, column, values) ==
    IF Len(values) = 0 THEN << >>
    ELSE SelectSeq(rs, LAMBDA r : r[column] = values[1])
         \o GroupBy(rs, column, Tail(values))

\* query.order_by(*clauses) as the database executes it. SQL orders by the
\* clauses and leaves the order of ties to the engine: ASC returns ties in
\* insertion order; DESC returns them in insertion order too (a sort of the
\* table, tie_order = "insertion") or mirrors ASC (an index read backwards,
\* tie_order = "mirror"). Every ordering of Orderings has one clause, so the
\* first clause decides the order.
order_by(rs, clauses) ==
    LET column == clauses[1].column
        values == NullsPlaced({rs[i][column] : i \in 1..Len(rs)})
    IN  IF clauses[1].direction = "asc" THEN GroupBy(rs, column, values)
        ELSE IF tie_order = "insertion" THEN GroupBy(rs, column, Reversed(values))
        ELSE Reversed(GroupBy(rs, column, values))

\* query[start:stop], a LIMIT/OFFSET; list[:stop].
Slice(s, start, stop) == SubSeq(s, start + 1, Min(Len(s), stop))

\* Fetched without the second reversal: the page of a reverse cursor is left
\* in the order of the reversed query.
FetchedUnreversed(c, results, first) ==
    [offset |-> c.offset, reverse |-> c.reverse, current_position |-> c.position,
     page |-> first,
     has_following_position |-> Len(results) > Len(first),
     following_position |->
        IF Len(results) > Len(first)
        THEN _get_position_from_instance(results[Len(results)], ordering)
        ELSE None]

\* The page and the following position, from the rows the range query
\* returned.
Fetched(c, results, first) ==
    [offset |-> c.offset, reverse |-> c.reverse, current_position |-> c.position,
     page |-> IF c.reverse THEN Reversed(first) ELSE first,
     has_following_position |-> Len(results) > Len(first),
     following_position |->
        IF Len(results) > Len(first)
        THEN _get_position_from_instance(results[Len(results)], ordering)
        ELSE None]

\* Range without the cut: the extra row fetched to look ahead stays in the
\* page.
RangeUncut(c, query) ==
    Fetched(c, Slice(query, c.offset, c.offset + page_size + 1),
            Slice(query, c.offset, c.offset + page_size + 1))

\* list(query[offset:offset + self.page_size + 1]), then the page cut from it.
Range(c, query) ==
    Fetched(c, Slice(query, c.offset, c.offset + page_size + 1),
            Slice(Slice(query, c.offset, c.offset + page_size + 1), 0, page_size))

\* column < value and column > value in a WHERE clause: a comparison with
\* NULL is not true.
Less(a, b) == a # None /\ b # None /\ StrLess(a, b)

\* Filter with the test for (cursor reversed) XOR (queryset reversed)
\* inverted.
FilterInverted(c, query, order) ==
    IF c.position # None THEN
        IF c.reverse = (order.ascending = "False")
        THEN SelectSeq(query, LAMBDA r : Less(r[order.field], c.position))
        ELSE SelectSeq(query, LAMBDA r : Less(c.position, r[order.field]))
    ELSE query

\* The filter on the first ordering field, for a cursor with a position.
Filter(c, query, order) ==
    IF c.position # None THEN
        IF c.reverse # (order.ascending = "False")
        THEN SelectSeq(query, LAMBDA r : Less(r[order.field], c.position))
        ELSE SelectSeq(query, LAMBDA r : Less(c.position, r[order.field]))
    ELSE query

Ordered(c, ordering_clauses) ==
    IF ordering_clauses.exc # "" THEN ordering_clauses
    ELSE Return(Range(c, Filter(c, order_by(rows, ordering_clauses.val), ordering[1])))

\* What paginate_query computes up to its page and the following position,
\* for (offset, reverse, current_position) = c.
Fetch(c) ==
    Ordered(c, IF c.reverse
               THEN convert_ordering_to_alchmey_clauses(_reverse_ordering(ordering))
               ELSE convert_ordering_to_alchmey_clauses(ordering))

\* Triple with the first page starting at offset 1.
TripleFromOne(c) == IF c = NoCursor THEN Cursor(1, FALSE, None) ELSE c

\* (offset, reverse, current_position) of paginate_query for self.cursor.
Triple(c) == IF c = NoCursor THEN Cursor(0, FALSE, None) ELSE c

\* The attributes of the paginator, as one object.
Self ==
    [cursor |-> cursor, page |-> page, has_next |-> has_next,
     has_previous |-> has_previous, next_position |-> next_position,
     previous_position |-> previous_position, paginated |-> paginated]

\* NextCursorOf with the page scanned from its first item, as
\* get_previous_token scans it.
NextCursorFromFirst(self) ==
    IF ~self.has_next THEN Return(NoCursor)
    ELSE IF self.cursor # NoCursor /\ self.cursor.reverse /\ self.cursor.offset # 0 /\ Len(self.page) = 0
    THEN Raise("IndexError")
    ELSE
        LET compare ==
                IF self.cursor # NoCursor /\ self.cursor.reverse /\ self.cursor.offset # 0
                THEN _get_position_from_instance(self.page[Len(self.page)], ordering)
                ELSE self.next_position
            differ == {i \in 1..Len(self.page) :
                          _get_position_from_instance(self.page[i], ordering) # compare}
            at == CHOOSE i \in differ : \A j \in differ : i <= j
        IN  IF differ # {} THEN
                Return(Cursor(at - 1, FALSE,
                              _get_position_from_instance(self.page[at], ordering)))
            ELSE IF ~self.has_previous THEN Return(Cursor(page_size, FALSE, None))
            ELSE IF self.cursor = NoCursor THEN Raise("AttributeError")
            ELSE IF self.cursor.reverse THEN Return(Cursor(0, FALSE, self.previous_position))
            ELSE Return(Cursor(self.cursor.offset + page_size, FALSE, self.previous_position))

\* NextCursorOf with the offset of the cursor dropped where the else clause
\* carries it on.
NextCursorWithoutCarry(self) ==
    IF ~self.has_next THEN Return(NoCursor)
    ELSE IF self.cursor # NoCursor /\ self.cursor.reverse /\ self.cursor.offset # 0 /\ Len(self.page) = 0
    THEN Raise("IndexError")
    ELSE
        LET compare ==
                IF self.cursor # NoCursor /\ self.cursor.reverse /\ self.cursor.offset # 0
                THEN _get_position_from_instance(self.page[Len(self.page)], ordering)
                ELSE self.next_position
            differ == {i \in 1..Len(self.page) :
                          _get_position_from_instance(self.page[i], ordering) # compare}
            at == CHOOSE i \in differ : \A j \in differ : j <= i
        IN  IF differ # {} THEN
                Return(Cursor(Len(self.page) - at, FALSE,
                              _get_position_from_instance(self.page[at], ordering)))
            ELSE IF ~self.has_previous THEN Return(Cursor(page_size, FALSE, None))
            ELSE IF self.cursor = NoCursor THEN Raise("AttributeError")
            ELSE IF self.cursor.reverse THEN Return(Cursor(0, FALSE, self.previous_position))
            ELSE Return(Cursor(page_size, FALSE, self.previous_position))

\* The Cursor that get_next_token builds; NoCursor where it returns None.
\* The loop over reversed(self.page) leaves compare as it is until it breaks,
\* so it breaks at the last item whose position differs from compare and has
\* counted the items after it; without such an item the else clause runs
\* (also for an empty page).
NextCursorOf(self) ==
    IF ~self.has_next THEN Return(NoCursor)
    ELSE IF self.cursor # NoCursor /\ self.cursor.reverse /\ self.cursor.offset # 0 /\ Len(self.page) = 0
    THEN Raise("IndexError")
    ELSE
        LET compare ==
                IF self.cursor # NoCursor /\ self.cursor.reverse /\ self.cursor.offset # 0
                THEN _get_position_from_instance(self.page[Len(self.page)], ordering)
                ELSE self.next_position
            differ == {i \in 1..Len(self.page) :
                          _get_position_from_instance(self.page[i], ordering) # compare}
            at == CHOOSE i \in differ : \A j \in differ : j <= i
        IN  IF differ # {} THEN
                Return(Cursor(Len(self.page) - at, FALSE,
                              _get_position_from_instance(self.page[at], ordering)))
            ELSE IF ~self.has_previous THEN Return(Cursor(page_size, FALSE, None))
            ELSE IF self.cursor = NoCursor THEN Raise("AttributeError")
            ELSE IF self.cursor.reverse THEN Return(Cursor(0, FALSE, self.previous_position))
            ELSE Return(Cursor(self.cursor.offset + page_size, FALSE, self.previous_position))

NextCursor == NextCursorOf(Self)

\* PreviousCursorOf with the two last branches of the else clause as
\* get_next_token has them: offset 0 after a reverse cursor, the offset carried
\* on after a forward one.
PreviousCursorAsNext(self) ==
    IF ~self.has_previous THEN Return(NoCursor)
    ELSE IF self.cursor # NoCursor /\ ~self.cursor.reverse /\ self.cursor.offset # 0 /\ Len(self.page) = 0
    THEN Raise("IndexError")
    ELSE
        LET compare ==
                IF self.cursor # NoCursor /\ ~self.cursor.reverse /\ self.cursor.offset # 0
                THEN _get_position_from_instance(self.page[1], ordering)
                ELSE self.previous_position
            differ == {i \in 1..Len(self.page) :
                          _get_position_from_instance(self.page[i], ordering) # compare}
            at == CHOOSE i \in differ : \A j \in differ : i <= j
        IN  IF differ # {} THEN
                Return(Cursor(at - 1, TRUE,
                              _get_position_from_instance(self.page[at], ordering)))
            ELSE IF ~self.has_next THEN Return(Cursor(page_size, TRUE, None))
            ELSE IF self.cursor = NoCursor THEN Raise("AttributeError")
            ELSE IF self.cursor.reverse
            THEN Return(Cursor(0, TRUE, self.next_position))
            ELSE Return(Cursor(self.cursor.offset + page_size, TRUE, self.next_position))

\* The Cursor that get_previous_token builds, scanning self.page first to last.
PreviousCursorOf(self) ==
    IF ~self.has_previous THEN Return(NoCursor)
    ELSE IF self.cursor # NoCursor /\ ~self.cursor.reverse /\ self.cursor.offset # 0 /\ Len(self.page) = 0
    THEN Raise("IndexError")
    ELSE
        LET compare ==
                IF self.cursor # NoCursor /\ ~self.cursor.reverse /\ self.cursor.offset # 0
                THEN _get_position_from_instance(self.page[1], ordering)
                ELSE self.previous_position
            differ == {i \in 1..Len(self.page) :
                          _get_position_from_instance(self.page[i], ordering) # compare}
            at == CHOOSE i \in differ : \A j \in differ : i <= j
        IN  IF differ # {} THEN
                Return(Cursor(at - 1, TRUE,
                              _get_position_from_instance(self.page[at], ordering)))
            ELSE IF ~self.has_next THEN Return(Cursor(page_size, TRUE, None))
            ELSE IF self.cursor = NoCursor THEN Raise("AttributeError")
            ELSE IF self.cursor.reverse
            THEN Return(Cursor(self.cursor.offset + page_size, TRUE, self.next_position))
            ELSE Return(Cursor(0, TRUE, self.next_position))

PreviousCursor == PreviousCursorOf(Self)

\* A getter called before any paginate_query finds no has_next attribute.
TokenOf(self, built) ==
    IF ~self.paginated THEN Raise("AttributeError")
    ELSE IF built.exc # "" THEN built
    ELSE IF built.val = NoCursor THEN Return(None)
    ELSE Return(encode_cursor(built.val))

get_next_token == TokenOf(Self, NextCursor)
get_previous_token == TokenOf(Self, PreviousCursor)

\* ------------------------------------------------------------------------
\* The calls of one client on one paginator
\* ------------------------------------------------------------------------

Visit(p, how, n) == [page |-> p, via |-> how, hops |-> n]

\* Assigned with a flag that is set staying set: has_next and has_previous
\* are only ever raised, as the positions are only ever assigned.
AssignedOverEarlier(self, c, f) ==
    IF f.reverse THEN
        [cursor |-> c, page |-> f.page, paginated |-> TRUE,
         has_next |-> (f.current_position # None \/ f.offset > 0 \/ self.has_next),
         has_previous |-> (f.has_following_position \/ self.has_previous),
         next_position |-> IF f.current_position # None \/ f.offset > 0
                           THEN f.current_position ELSE self.next_position,
         previous_position |-> IF f.has_following_position
                               THEN f.following_position ELSE self.previous_position]
    ELSE
        [cursor |-> c, page |-> f.page, paginated |-> TRUE,
         has_next |-> (f.has_following_position \/ self.has_next),
         has_previous |-> (f.current_position # None \/ f.offset > 0 \/ self.has_previous),
         next_position |-> IF f.has_following_position
                           THEN f.following_position ELSE self.next_position,
         previous_position |-> IF f.current_position # None \/ f.offset > 0
                               THEN f.current_position ELSE self.previous_position]

\* Assigned with the flag of the side the cursor came from taken from the
\* offset alone.
AssignedByOffset(self, c, f) ==
    IF f.reverse THEN
        [cursor |-> c, page |-> f.page, paginated |-> TRUE,
         has_next |-> f.offset > 0,
         has_previous |-> f.has_following_position,
         next_position |-> IF f.current_position # None \/ f.offset > 0
                           THEN f.current_position ELSE self.next_position,
         previous_position |-> IF f.has_following_position
                               THEN f.following_position ELSE self.previous_position]
    ELSE
        [cursor |-> c, page |-> f.page, paginated |-> TRUE,
         has_next |-> f.has_following_position,
         has_previous |-> f.offset > 0,
         next_position |-> IF f.has_following_position
                           THEN f.following_position ELSE self.next_position,
         previous_position |-> IF f.current_position # None \/ f.offset > 0
                               THEN f.current_position ELSE self.previous_position]

\* The attributes of the paginator self once paginate_query has fetched f for
\* the cursor c: a position is assigned only with its flag set, and else
\* keeps the value of an earlier call.
Assigned(self, c, f) ==
    IF f.reverse THEN
        [cursor |-> c, page |-> f.page, paginated |-> TRUE,
         has_next |-> (f.current_position # None \/ f.offset > 0),
         has_previous |-> f.has_following_position,
         next_position |-> IF f.current_position # None \/ f.offset > 0
                           THEN f.current_position ELSE self.next_position,
         previous_position |-> IF f.has_following_position
                               THEN f.following_position ELSE self.previous_position]
    ELSE
        [cursor |-> c, page |-> f.page, paginated |-> TRUE,
         has_next |-> f.has_following_position,
         has_previous |-> (f.current_position # None \/ f.offset > 0),
         next_position |-> IF f.has_following_position
                           THEN f.following_position ELSE self.next_position,
         previous_position |-> IF f.current_position # None \/ f.offset > 0
                               THEN f.current_position ELSE self.previous_position]

\* The paginator takes the attributes of self.
Store(self) ==
    /\ cursor' = self.cursor
    /\ page' = self.page
    /\ paginated' = self.paginated
    /\ has_next' = self.has_next
    /\ has_previous' = self.has_previous
    /\ next_position' = self.next_position
    /\ previous_position' = self.previous_position

\* The assignments of paginate_query once the page is fetched.
Assign(c, f, how, n) ==
    /\ raised' = ""
    /\ getter_raised' = ""
    /\ Store(Assigned(Self, c, f))
    /\ next_token' = Unset
    /\ previous_token' = Unset
    /\ via' = how
    /\ hops' = n
    /\ walked' = IF n = 0 THEN f.page
                 ELSE IF n > 0 THEN walked \o f.page
                 ELSE << >>
    /\ trail' = IF n = 0 THEN << Visit(f.page, "start", n) >>
                ELSE SubSeq(<< Visit(f.page, how, n) >> \o trail, 1,
                            Min(Len(trail) + 1, 3))

\* paginate_query from the query on: an exception leaves what it has not
\* assigned yet.
Query(c, fetched, how) ==
    IF fetched.exc # "" THEN
        /\ raised' = fetched.exc
        /\ cursor' = c
        /\ UNCHANGED << page, has_next, has_previous, next_position,
                        previous_position, paginated >>
        /\ UNCHANGED << getter_raised, next_token, previous_token,
                        via, hops, walked, trail >>
    ELSE
        Assign(c, fetched.val, how,
               IF how \in {"null", "empty"} THEN 0
               ELSE IF how = "next" /\ hops >= 0 THEN hops + 1
               ELSE -1)

Decoded(decoded, how) ==
    IF decoded.exc # "" THEN
        /\ raised' = decoded.exc
        /\ UNCHANGED << attributes, getter_raised, next_token, previous_token,
                        via, hops, walked, trail >>
    ELSE Query(decoded.val, Fetch(Triple(decoded.val)), how)

\* paginate_query(query, page_token); how tells where the client took the
\* token from.
paginate_query(page_token, how) ==
    /\ token' = page_token
    /\ Decoded(decode_cursor(page_token), how)

PaginateNull == paginate_query(None, "null") /\ UNCHANGED << config, others >>
PaginateEmpty == paginate_query(<< >>, "empty") /\ UNCHANGED << config, others >>

PaginateNext ==
    /\ next_token \notin {Unset, None}
    /\ paginate_query(next_token, "next")
    /\ UNCHANGED << config, others >>

PaginatePrevious ==
    /\ previous_token \notin {Unset, None}
    /\ paginate_query(previous_token, "previous")
    /\ UNCHANGED << config, others >>

PaginateCrafted == paginate_query(crafted, "crafted") /\ UNCHANGED << config, others >>

\* A getter has returned, or raised.
Got(returned, previously) == IF returned.exc = "" THEN returned.val ELSE previously

GetNextToken ==
    /\ next_token = Unset
    /\ getter_raised' = get_next_token.exc
    /\ next_token' = Got(get_next_token, next_token)
    /\ UNCHANGED << config, others, attributes, token, raised, previous_token,
                    via, hops, walked, trail >>

GetPreviousToken ==
    /\ previous_token = Unset
    /\ getter_raised' = get_previous_token.exc
    /\ previous_token' = Got(get_previous_token, previous_token)
    /\ UNCHANGED << config, others, attributes, token, raised, next_token,
                    via, hops, walked, trail >>

Next ==
    \/ PaginateNull
    \/ PaginateEmpty
    \/ PaginateNext
    \/ PaginatePrevious
    \/ GetNextToken
    \/ GetPreviousToken

\* ------------------------------------------------------------------------
\* Initial states
\* ------------------------------------------------------------------------

MaxRows == 4
MaxPageSize == 2

\* The names the pets are given: two plain ones and one made of the
\* characters a query string gives a meaning to.
Names == { Str(<<"A">>), Str(<<"B">>), Str(<<"b", " ", "+", "&", "=", "%">>) }

\* A table of pets named ns[1], ns[2], ... in that order of insertion; id is
\* the autoincremented primary key.
Table(ns) == [i \in 1..Len(ns) |-> [id |-> i, name |-> ns[i]]]

Tables == UNION { {Table(ns) : ns \in [1..n -> Names]} : n \in 0..MaxRows }

\* A table whose rows all carry one name, two rows longer than the largest
\* offset a token can carry, read in pages of one row less than the table.
LongTable == Table([i \in 1..(offset_cutoff + 2) |-> Str(<<"A">>)])

Orderings == { << [field |-> "name", ascending |-> a] >> : a \in {"True", "False"} }

\* ------------------------------------------------------------------------
\* The constructor
\* ------------------------------------------------------------------------

\* An ordering argument is a Python value with its type: None, a str (its
\* text), a dict or a list of dicts (its entries; a dict is a record,
\* 'ascending' being a key it may lack).
Arg(type, entries) == [type |-> type, value |-> entries]
List(entries) == Arg("list", entries)
Dict(entry) == Arg("dict", << entry >>)
Text(string) == [type |-> "str", text |-> string]

\* order.get('ascending') is None
AscendingIsNone(order) ==
    \/ "ascending" \notin DOMAIN order
    \/ order.ascending = "None"

\* The entries the loop of __init__ appends to self.ordering.
Appended(given) ==
    SelectSeq(given, LAMBDA order : order.field \in model /\ ~AscendingIsNone(order))

\* __init__ without its second assertion.
AssertNothing(kept) == Return(kept)

\* The second assertion, on self.ordering.
AssertNotEmpty(kept) ==
    IF Len(kept) > 0 THEN Return(kept) ELSE Raise("AssertionError")

\* CursorPagination.__init__: self.ordering, or the AssertionError of one of
\* its two assertions (assertions are executed, as the tests require).
__init__(ordering_argument) ==
    IF ordering_argument.type \notin {"dict", "list", "tuple"}
    THEN Raise("AssertionError")
    ELSE IF ordering_argument.type = "dict"
    THEN AssertNotEmpty(Appended(<< ordering_argument.value[1] >>))
    ELSE AssertNotEmpty(Appended(ordering_argument.value))

\* CursorPagination(Pet, page_size, given) has returned.
Built(given) ==
    /\ model = ModelFields
    /\ argument = List(given)
    /\ constructed = "ok"
    /\ ordering = __init__(argument).val

\* The attributes of a paginator that has paginated nothing yet.
NewInstance ==
    [cursor |-> NoCursor, page |-> << >>, has_next |-> FALSE,
     has_previous |-> FALSE, next_position |-> Unset,
     previous_position |-> Unset, paginated |-> FALSE]

\* One client alone uses the paginator.
OneClient ==
    /\ shared = FALSE
    /\ other = NewInstance
    /\ pc = [A |-> "none", B |-> "none"]
    /\ calls = [A |-> None, B |-> None, getter |-> "next"]
    /\ responses = [page |-> [A |-> << >>, B |-> << >>], token |-> Return(Unset)]

\* fields(PetEntity) of the relationship tests, in declaration order, and what
\* Message.get gives for a field that is not set.
fields == << "id", "name", "owner_id" >>
default == [id |-> "0", name |-> "''", owner_id |-> "0"]

\* The attributes of the model class Pet of the relationship tests, and one
\* more column that PetEntity has no field for.
Attributes == {"id", "name", "owner_id", "owner", "species"}

\* pet = Pet(name='snek'), committed; PetEntity(); FieldMask().
Snek ==
    [id |-> "1", name |-> "'snek'", owner_id |-> "None", owner |-> "None",
     species |-> "'snake'"]
NoChanges == [id |-> "unset", name |-> "unset", owner_id |-> "unset"]

\* No other request has written to the table: the collection before the
\* writes made since the page was fetched, the number of next tokens followed
\* when they were made, how many were made, the id of the next row and the
\* first id that no row of the collection had at the start.
NoWrite ==
    written = [unmodified |-> rows, hops |-> -2, count |-> 0,
               id |-> Len(rows) + 1, first |-> Len(rows) + 1]

\* No resource.update has been called.
NoUpdate ==
    /\ entity = Snek
    /\ stored = Snek
    /\ changes = NoChanges
    /\ mask = {}
    /\ outcome = ""
    /\ people = 0
    /\ taken = {}

\* CursorPagination(model, page_size, ordering) has run; nothing is paginated.
Fresh ==
    /\ cursor = NoCursor
    /\ page = << >>
    /\ has_next = FALSE
    /\ has_previous = FALSE
    /\ next_position = Unset
    /\ previous_position = Unset
    /\ paginated = FALSE
    /\ token = Unset
    /\ raised = ""
    /\ getter_raised = ""
    /\ next_token = Unset
    /\ previous_token = Unset
    /\ via = "none"
    /\ hops = -1
    /\ walked = << >>
    /\ trail = << >>

Constructed == OneClient /\ NoUpdate /\ NoWrite /\ Fresh

Init ==
    /\ \/ rows \in Tables /\ page_size \in 1..MaxPageSize
       \/ rows = LongTable /\ page_size = offset_cutoff + 1
    /\ \E given \in Orderings : Built(given)
    /\ tie_order \in {"insertion", "mirror"}
    /\ nulls = "first"
    /\ crafted = None
    /\ Constructed

Spec == Init /\ [][Next]_vars

\* ------------------------------------------------------------------------
\* A client that makes up its own token
\* ------------------------------------------------------------------------

\* Query strings a client may put in a token: offsets that are no number,
\* negative, blank, signed, zero, small and beyond offset_cutoff; reverse
\* flags; positions before, at and after the names of the table.
CraftedQueries ==
    { Str(<<"o", "=", "x">>),
      Str(<<"o", "=", "-", "1">>),
      Str(<<"o", "=">>),
      Str(<<"o", "=", "+", "1">>),
      Str(<<"o", "=", "0">>),
      Str(<<"o", "=", "1">>),
      Str(<<"o", "=", "1", "0", "0", "1">>),
      Str(<<"o", "=", "5", "0", "0", "0", "&", "r", "=", "1">>),
      Str(<<"r", "=", "x">>),
      Str(<<"r", "=", "1">>),
      Str(<<"r", "=", "2">>),
      Str(<<"o", "=", "2", "&", "r", "=", "1">>),
      Str(<<"p", "=", "A">>),
      Str(<<"p", "=", "B", "&", "r", "=", "1">>),
      Str(<<"p", "=", "A", "&", "r", "=", "1">>),
      Str(<<"p", "=">>),
      Str(<<"o", "=", "1", "&", "p", "=", "A">>),
      Str(<<"o", "=", "1", "&", "r", "=", "1", "&", "p", "=", "B">>),
      Str(<<"p", "=", "%", "F", "F", "&", "o", "=", "1">>),
      Str(<<"x">>) }

\* Tokens that are no base64 text: the token of test_invalid_cursor, the one
\* of the specification, characters outside the alphabet alone and after a
\* well-formed token, a lone character, a character outside ASCII.
RawTokens ==
    { Str(<<"1", "2", "3">>),
      Str(<<"n", "o", "t", "-", "v", "a", "l", "i", "d", "-",
             "b", "a", "s", "e", "6", "4", "!", "!", "!">>),
      Str(<<"!", "!", "!", "!">>),
      Str(<<"b", "z", "0", "x", "!", "!">>),
      Str(<<"a">>),
      << 233 >> }

CraftedTokens == { b64encode(q) : q \in CraftedQueries } \cup RawTokens

\* The tables of at most MaxRows - 2 rows.
ShortTables == { t \in Tables : Len(t) <= MaxRows - 2 }

InitCrafted ==
    /\ rows \in ShortTables
    /\ page_size \in 1..MaxPageSize
    /\ \E given \in Orderings : Built(given)
    /\ tie_order \in {"insertion", "mirror"}
    /\ nulls = "first"
    /\ crafted \in CraftedTokens
    /\ Constructed

NextCrafted ==
    \/ PaginateCrafted
    \/ PaginateNext
    \/ PaginatePrevious
    \/ GetNextToken
    \/ GetPreviousToken

SpecCrafted == InitCrafted /\ [][NextCrafted]_vars

\* ------------------------------------------------------------------------
\* Properties
\* ------------------------------------------------------------------------

\* The whole collection in the configured order: what the query returns
\* under the paginator's ordering, unfiltered and unsliced.
Base == order_by(rows, convert_ordering_to_alchmey_clauses(ordering).val)

Members(s) == { s[i] : i \in 1..Len(s) }

\* The rows from row number start + 1 to row number stop of the collection.
BaseRows(start, stop) == Slice(Base, start, stop)

\* s is a run of consecutive rows of the ordered collection.
IsRun(s) ==
    \/ Len(s) = 0
    \/ \E i \in 1..Len(Base) :
          /\ i + Len(s) - 1 <= Len(Base)
          /\ \A k \in 1..Len(s) : Base[i + k - 1] = s[k]

\* The primary ordering values are pairwise distinct.
DistinctNames ==
    \A i, j \in 1..Len(rows) : i # j => rows[i].name # rows[j].name

\* before comes before after in the configured direction.
InOrder(before, after) ==
    IF Truthy(ordering[1].ascending) THEN StrLess(before.name, after.name)
    ELSE StrLess(after.name, before.name)

\* P was reached from the null token by one or more next tokens, the client
\* then asked P for its previous token and paginated with it.
BackFromWalk ==
    /\ via = "previous"
    /\ Len(trail) = 3
    /\ trail[2].hops >= 1

\* C1: a forward walk from the null token that has reached a null next token
\* has returned, page after page, the whole collection in the configured
\* order, each row once.
ForwardWalkComplete ==
    (hops >= 0 /\ next_token = None) => walked = Base

\* C2: paginating with the previous token of a page P of a forward walk
\* returns the set of items of the page that preceded P in the walk.
PreviousReturnsPrecedingSet ==
    BackFromWalk => Members(page) = Members(trail[3].page)

\* C3: a page Q' fetched with the previous token of a page Q that was itself
\* fetched with a previous token shares no row with Q, and Q' followed by Q
\* is a run of consecutive rows of the ordered collection.
BackwardContiguous ==
    (via = "previous" /\ Len(trail) >= 2 /\ trail[2].via = "previous")
        => /\ Members(page) \cap Members(trail[2].page) = {}
           /\ IsRun(page \o trail[2].page)

\* C4: the token a getter returned decodes to the Cursor the getter built.
CursorRoundTrip ==
    /\ next_token \notin {Unset, None} => decode_cursor(next_token) = Return(NextCursor.val)
    /\ previous_token \notin {Unset, None}
          => decode_cursor(previous_token) = Return(PreviousCursor.val)

\* Base64 text as RFC 4648 defines it: quads of characters of the alphabet,
\* the last quad padded with at most two '='.
IsBase64(t) ==
    /\ Len(t) % 4 = 0
    /\ \A i \in 1..Len(t) :
          \/ B64Value(t[i]) < 64
          \/ t[i] = 61 /\ i >= Len(t) - 1 /\ (i = Len(t) - 1 => t[Len(t)] = 61)

\* The value of key in the query string that the token t encodes is no
\* number (int() does not take it), or is a negative one when signed is asked.
BadNumber(t, key, signed) ==
    LET field == TokensGet(parse_qs(b64decode(t).val), key, Zero) IN
    \/ int(field).exc # ""
    \/ signed /\ int(field).val < 0

\* A token that must be rejected: not empty, and no base64 text or carrying
\* an 'o' that is no number or negative, or an 'r' that is no number.
InvalidToken(t) ==
    /\ t # None /\ Len(t) > 0
    /\ \/ ~IsBase64(t)
       \/ BadNumber(t, KeyO, TRUE)
       \/ BadNumber(t, KeyR, FALSE)

\* C5: paginate_query with an invalid token raises NotFound (and so returns
\* no page).
InvalidTokenRejected ==
    (token # Unset /\ InvalidToken(token)) => raised = "NotFound"

\* C6: a page has at most page_size items, whatever token it was fetched with.
PageSizeBound == Len(page) <= page_size

\* C7: with pairwise distinct names the k-th page of a forward walk is rows
\* k * page_size + 1 .. (k + 1) * page_size of the collection sorted in the
\* configured direction.
ForwardPagesDistinct ==
    (hops >= 0 /\ DistinctNames)
        => /\ page = BaseRows(hops * page_size, (hops + 1) * page_size)
           /\ Members(Base) = Members(rows)
           /\ \A i, j \in 1..Len(Base) : i < j => InOrder(Base[i], Base[j])

\* C8: with pairwise distinct names, paginating with the previous token of
\* the k-th forward page, k >= 1, returns the (k-1)-th forward page, its
\* items in the same order.
PreviousPageDistinct ==
    (BackFromWalk /\ DistinctNames) => page = trail[3].page

\* C9: on a forward walk get_next_token() returns null on the page that holds
\* the last row of the ordered collection (or when there is no row) and a
\* token on every earlier page, and the last page holds the rows that the
\* full pages before it left.
ForwardWalkEnd ==
    (hops >= 0 /\ next_token # Unset)
        => /\ (next_token = None) <=>
                  (Len(Base) = 0 \/ Base[Len(Base)] \in Members(page))
           /\ next_token = None => page = BaseRows(hops * page_size, Len(Base))

\* C10: the null token and the empty token both give the first page: the
\* first min(page_size, n) rows in the base ordering, nothing before it and
\* no previous token.
FirstPage ==
    via \in {"null", "empty"}
        => /\ cursor = NoCursor
           /\ page = BaseRows(0, page_size)
           /\ ~has_previous
           /\ has_next = (Len(rows) > page_size)
           /\ previous_token \in {Unset, None}

\* ------------------------------------------------------------------------
\* States in which the properties are put to the test
\* ------------------------------------------------------------------------

\* A made-up token was accepted and its page is full, more rows than a page
\* holds being in the table.
CraftedPageFull ==
    /\ via = "crafted"
    /\ raised = ""
    /\ cursor # NoCursor
    /\ Len(page) = page_size
    /\ has_next

\* The second or a later page of a forward walk in descending order over
\* pairwise distinct names that were inserted in neither sorted order.
ForwardPageOfShuffled ==
    /\ hops >= 1
    /\ DistinctNames
    /\ Len(rows) >= 3
    /\ ~Truthy(ordering[1].ascending)
    /\ rows # Base
    /\ rows # Reversed(Base)
    /\ page # << >>

\* A full page of two rows came back through the previous token of the
\* forward page after it, the names being pairwise distinct.
BackToFullPage ==
    /\ BackFromWalk
    /\ DistinctNames
    /\ Len(page) = 2
    /\ trail[2].page # << >>

\* The empty token was paginated after another page had left its positions
\* behind, the first page is full, and get_previous_token() has returned.
EmptyTokenAfterOtherPage ==
    /\ via = "empty"
    /\ previous_position # Unset
    /\ previous_token = None
    /\ Len(page) = page_size
    /\ has_next

\* Every row has the same primary ordering value.
AllTied == \A i, j \in 1..Len(rows) : rows[i].name = rows[j].name

\* C11: when every row has the same primary ordering value, the k-th page of
\* a forward walk is rows k * page_size + 1 .. (k + 1) * page_size of the
\* ordered query, and the token that led to it carries offset k * page_size
\* and no position.
FullTiePaging ==
    (hops >= 0 /\ AllTied)
        => /\ page = BaseRows(hops * page_size, (hops + 1) * page_size)
           /\ hops >= 1 => token = encode_cursor(Cursor(hops * page_size, FALSE, None))

\* ------------------------------------------------------------------------
\* A caller that constructs the paginator from an ordering of its own
\* ------------------------------------------------------------------------

MaxOrdering == 2

\* The dicts a caller puts in an ordering: a field the model has or one it
\* has not, and 'ascending' left out, or None, a bool, or the int 0.
Entries ==
    { [field |-> f] : f \in {"name", "invalid_field"} }
        \cup { [field |-> f, ascending |-> a] :
                  f \in {"name", "invalid_field"}, a \in {"None", "True", "False", "0"} }

Arguments ==
    { Arg("NoneType", << >>), Text(Str(<< "n", "a", "m", "e" >>)) }
        \cup { Dict(e) : e \in Entries }
        \cup UNION { { List(es) : es \in [1..n -> Entries] } : n \in 0..MaxOrdering }

\* The tables the constructed paginator is used on.
ConstructTables == { Table(<< >>), Table(<< Str(<<"B">>), Str(<<"A">>), Str(<<"B">>) >>) }

InitConstruct ==
    /\ rows \in ConstructTables
    /\ page_size \in 1..MaxPageSize
    /\ tie_order \in {"insertion", "mirror"}
    /\ nulls = "first"
    /\ crafted = None
    /\ model = ModelFields
    /\ argument \in Arguments
    /\ constructed = ""
    /\ ordering = << >>
    /\ Constructed

\* CursorPagination(Pet, page_size, argument)
Construct ==
    /\ constructed = ""
    /\ constructed' = IF __init__(argument).exc = "" THEN "ok" ELSE __init__(argument).exc
    /\ ordering' = IF __init__(argument).exc = "" THEN __init__(argument).val ELSE ordering
    /\ UNCHANGED << rows, tie_order, nulls, page_size, crafted, model, argument,
                    attributes, client, others >>

\* The model class loses an attribute that the ordering names.
DelAttr ==
    /\ constructed = "ok"
    /\ \E i \in 1..Len(ordering) :
          /\ ordering[i].field \in model
          /\ model' = model \ {ordering[i].field}
    /\ UNCHANGED << rows, tie_order, nulls, page_size, ordering, crafted, argument,
                    constructed, attributes, client, others >>

NextConstruct ==
    \/ Construct
    \/ DelAttr
    \/ constructed = "ok" /\ PaginateNull
    \/ constructed = "ok" /\ PaginateNext
    \/ constructed = "ok" /\ PaginatePrevious
    \/ constructed = "ok" /\ GetNextToken
    \/ constructed = "ok" /\ GetPreviousToken

SpecConstruct == InitConstruct /\ [][NextConstruct]_vars

\* The argument is a list whose only entry is e.
Sole(e) == argument = List(<< e >>)

\* The ordering arguments that must fail: None, a bare string, a sole entry
\* naming a field the model does not have, a sole entry without 'ascending'.
MustFail ==
    \/ argument.type \in {"NoneType", "str"}
    \/ \E e \in Entries : Sole(e) /\ e.field \notin ModelFields
    \/ \E e \in Entries : Sole(e) /\ "ascending" \notin DOMAIN e

\* A dict that names an attribute of the model and has a bool 'ascending'.
IsValidEntry(e) ==
    /\ e.field \in ModelFields
    /\ "ascending" \in DOMAIN e
    /\ e.ascending \in {"True", "False"}

\* C12: construction raises AssertionError for None, a bare string, a list
\* whose only entry names an unknown field and a list whose only entry has no
\* 'ascending'; with a list of one valid entry it succeeds and self.ordering
\* is that list, before and after paginate_query.
InvalidOrderingFails ==
    constructed # ""
        => /\ MustFail => constructed = "AssertionError"
           /\ (\E e \in Entries : Sole(e) /\ IsValidEntry(e))
                 => constructed = "ok" /\ ordering = argument.value

\* C13: after a successful construction self.ordering is the input entries,
\* in input order, that name an attribute of the model and have a bool
\* 'ascending'; a single dict counts as a list of one.
OrderingNormalised ==
    constructed = "ok"
        => ordering = SelectSeq(argument.value, IsValidEntry)

\* An ordering entry names a field that the model does not have.
UnknownField == \E i \in 1..Len(ordering) : ordering[i].field \notin model

\* C16: paginate_query on a paginator whose ordering names a field the model
\* does not have raises NotFound, whatever the token.
UnknownFieldNotFound ==
    [][(UnknownField /\ (PaginateNull \/ PaginateNext \/ PaginatePrevious))
          => raised' = "NotFound"]_vars

\* A list whose only entry has no 'ascending' was refused.
SoleEntryWithoutAscendingRefused ==
    /\ constructed = "AssertionError"
    /\ Sole([field |-> "name"])

\* The 'o' of the query string that the token t encodes, '0' when it has none.
OffsetField(t) == TokensGet(parse_qs(b64decode(t).val), KeyO, Zero)

\* C14: the cursor of every token that decodes has an offset from 0 to
\* offset_cutoff, the smaller of the token's 'o' and offset_cutoff.
OffsetCapped ==
    (raised = "" /\ cursor # NoCursor)
        => /\ 0 <= cursor.offset
           /\ cursor.offset <= offset_cutoff
           /\ cursor.offset = Min(int(OffsetField(token)).val, offset_cutoff)

\* A made-up token with an 'o' of 5000 was accepted.
CraftedOffsetCut ==
    /\ via = "crafted"
    /\ raised = ""
    /\ cursor = Cursor(offset_cutoff, TRUE, None)
    /\ int(OffsetField(token)).val = 5000

\* What parse_qs makes of the query string that the token t encodes.
Parsed(t) == parse_qs(b64decode(t).val)

\* The keys among the (key, value) pairs parsed.
Keys(pairs) == { pairs[i][1] : i \in 1..Len(pairs) }

\* The pairs are those of the wire form of the Cursor c.
WireOf(pairs, c) ==
    /\ Keys(pairs) \subseteq {KeyO, KeyR, KeyP}
    /\ KeyO \in Keys(pairs) <=> c.offset # 0
    /\ KeyO \in Keys(pairs) => TokensGet(pairs, KeyO, None) = IntToStr(c.offset)
    /\ KeyR \in Keys(pairs) <=> c.reverse
    /\ KeyR \in Keys(pairs) => TokensGet(pairs, KeyR, None) = One
    /\ KeyP \in Keys(pairs) <=> c.position # None
    /\ KeyP \in Keys(pairs) => TokensGet(pairs, KeyP, None) = c.position

\* The Cursor c was decoded from the pairs, with the defaults for their
\* missing keys.
DefaultsOf(pairs, c) ==
    /\ KeyO \notin Keys(pairs) => c.offset = 0
    /\ KeyR \notin Keys(pairs) => ~c.reverse
    /\ KeyP \notin Keys(pairs) => c.position = None

\* C15: a token that a getter returns has key 'o' (the offset in decimal)
\* exactly when the offset is not 0, key 'r' = '1' exactly when reverse is
\* true, key 'p' (the position) exactly when the position is not null, and no
\* other key; a token that was decoded gave offset 0 for a missing 'o', a
\* forward cursor for a missing 'r' and no position for a missing 'p'.
WireFormat ==
    /\ next_token \notin {Unset, None}
          => WireOf(Parsed(next_token), NextCursor.val)
    /\ previous_token \notin {Unset, None}
          => WireOf(Parsed(previous_token), PreviousCursor.val)
    /\ (token \notin {Unset, None, << >>} /\ raised = "")
          => DefaultsOf(Parsed(token), cursor)

\* A token with a position alone was decoded, and the previous token of its
\* page, a reverse one, has been returned.
PositionOnlyTokenDecoded ==
    /\ via = "next"
    /\ raised = ""
    /\ Keys(Parsed(token)) = {KeyP}
    /\ previous_token \notin {Unset, None}
    /\ KeyR \in Keys(Parsed(previous_token))

\* ------------------------------------------------------------------------
\* Two list requests, on one paginator or each on its own
\* ------------------------------------------------------------------------

\* paginate_query on the paginator self, from the decoded token on: the
\* attributes it leaves.
PaginatedQuery(self, c, fetched) ==
    IF fetched.exc # "" THEN [self EXCEPT !.cursor = c]
    ELSE Assigned(self, c, fetched.val)

Paginated(self, decoded) ==
    IF decoded.exc # "" THEN self
    ELSE PaginatedQuery(self, decoded.val, Fetch(Triple(decoded.val)))

\* The page tokens of the requests: none, and tokens that earlier responses
\* handed out.
RequestTokens ==
    { None,
      encode_cursor(Cursor(0, FALSE, Str(<<"A">>))),
      encode_cursor(Cursor(1, FALSE, None)),
      encode_cursor(Cursor(0, TRUE, Str(<<"B">>))) }

InitShared ==
    /\ rows \in ShortTables
    /\ page_size \in 1..MaxPageSize
    /\ \E given \in Orderings : Built(given)
    /\ tie_order \in {"insertion", "mirror"}
    /\ nulls = "first"
    /\ crafted = None
    /\ Fresh
    /\ NoUpdate
    /\ NoWrite
    /\ shared \in BOOLEAN
    /\ other = NewInstance
    /\ pc = [A |-> "paginate", B |-> "paginate"]
    /\ calls \in [A : RequestTokens, B : RequestTokens, getter : {"next", "previous"}]
    /\ responses = [page |-> [A |-> << >>, B |-> << >>], token |-> Return(Unset)]

\* Request A: paginator.paginate_query(query, its token).
APaginate ==
    /\ pc.A = "paginate"
    /\ paginate_query(calls.A, "A")
    /\ responses' = [responses EXCEPT !.page.A = page']
    /\ pc' = [pc EXCEPT !.A = "get"]
    /\ UNCHANGED << config, updates, writes, shared, other, calls >>

\* Request B paginates on the paginator of request A although it was given
\* its own.
BPaginateOnOne ==
    /\ pc.B = "paginate"
    /\ pc' = [pc EXCEPT !.B = IF pc.A = "paginate" THEN "before"
                               ELSE IF pc.A = "get" THEN "between" ELSE "after"]
    /\ paginate_query(calls.B, "B")
    /\ responses' = [responses EXCEPT !.page.B = page']
    /\ UNCHANGED << config, updates, writes, shared, other, calls >>

\* Request B: paginate_query(query, its token), on the one paginator or on
\* its own; pc.B keeps when it ran: before request A paginated, between its
\* two calls, or after them.
BPaginate ==
    /\ pc.B = "paginate"
    /\ pc' = [pc EXCEPT !.B = IF pc.A = "paginate" THEN "before"
                               ELSE IF pc.A = "get" THEN "between" ELSE "after"]
    /\ IF shared THEN
            /\ paginate_query(calls.B, "B")
            /\ responses' = [responses EXCEPT !.page.B = page']
            /\ UNCHANGED other
       ELSE
            /\ other' = Paginated(other, decode_cursor(calls.B))
            /\ responses' = [responses EXCEPT !.page.B = other'.page]
            /\ UNCHANGED << attributes, client >>
    /\ UNCHANGED << config, updates, writes, shared, calls >>

\* Request A: paginator.get_next_token(), or get_previous_token().
AGetToken ==
    /\ pc.A = "get"
    /\ responses' = [responses EXCEPT !.token =
                        IF calls.getter = "next" THEN get_next_token
                        ELSE get_previous_token]
    /\ pc' = [pc EXCEPT !.A = "done"]
    /\ UNCHANGED << config, updates, writes, attributes, client, shared, other, calls >>

NextShared ==
    \/ APaginate
    \/ BPaginate
    \/ AGetToken

SpecShared == InitShared /\ [][NextShared]_vars

\* What a request gets when it runs alone on a new paginator: the page for
\* its token, and the token of the getter called on that page.
AlonePage(page_token) == Paginated(NewInstance, decode_cursor(page_token)).page

TokenWhenAlone(self, getter) ==
    IF getter = "next" THEN TokenOf(self, NextCursorOf(self))
    ELSE TokenOf(self, PreviousCursorOf(self))

AloneToken(page_token, getter) ==
    TokenWhenAlone(Paginated(NewInstance, decode_cursor(page_token)), getter)

\* C17: with a paginator of its own each request gets the page and the token
\* it gets when it runs alone, however the calls interleave; on one paginator,
\* when request B paginates between the two calls of request A, the token
\* returned to A is the one that belongs to B's page and cursor.
SharedInstance ==
    /\ (~shared /\ pc.A # "paginate") => responses.page.A = AlonePage(calls.A)
    /\ (~shared /\ pc.B # "paginate") => responses.page.B = AlonePage(calls.B)
    /\ (~shared /\ pc.A = "done")
          => responses.token = AloneToken(calls.A, calls.getter)
    /\ (shared /\ pc.A = "done" /\ pc.B = "between")
          => responses.token = AloneToken(calls.B, calls.getter)

\* On one paginator request B has paginated between the two calls of request
\* A, and A was returned another token than the one it gets alone.
TokenOfOtherRequest ==
    /\ shared
    /\ pc.A = "done"
    /\ pc.B = "between"
    /\ responses.token.exc = ""
    /\ responses.token # AloneToken(calls.A, calls.getter)

\* ------------------------------------------------------------------------
\* resource.update(entity, changes, mask)
\* ------------------------------------------------------------------------

\* At most this many Person rows are created.
MaxPeople == 1

\* The resource of the relationship tests: SQLAlchemyResource(Pet, PetEntity,
\* relationships={Relationship(people, 'owner', 'owner_id')}).
read_only_field_names == {"id"}
_relationships ==
    [owner_id |-> [reference |-> "person", name |-> "owner", field_name |-> "owner_id"]]

\* A Person row as an attribute value, and its id.
PersonIds == << "1", "2", "3" >>
Person(id) == "<Person " \o id \o ">"
format_id(person) == CHOOSE id \in { PersonIds[i] : i \in 1..Len(PersonIds) } : Person(id) = person

\* people.get(id_): the row, or NotFound.
get(id_, n) ==
    IF \E i \in 1..n : PersonIds[i] = id_ THEN Return(Person(id_))
    ELSE Raise("NotFound")

\* mask.match_path(name) for a field name, which holds no dot.
match_path(paths, name) == name \in paths

\* changes.get(name): the value set, or the default of the field.
changes_get(message, name) ==
    IF message[name] = "unset" THEN default[name] ELSE message[name]

\* setattr(entity, name, value); a failure keeps the exception.
setattr(state, name, value) ==
    [state EXCEPT !.entity = [state.entity EXCEPT ![name] = value]]

SetRelated(state, name, got) ==
    IF got.exc # "" THEN [state EXCEPT !.exc = got.exc]
    ELSE setattr(state, name, got.val)

\* The body of the loop with the read-only test left out.
update_read_only_field(state, name, message, paths, n) ==
    IF state.exc # "" \/ ~match_path(paths, name) THEN state
    ELSE IF name \in DOMAIN _relationships THEN
        IF Truthy(changes_get(message, name))
        THEN SetRelated(state, _relationships[name].name,
                        get(changes_get(message, name), n))
        ELSE setattr(state, name, "None")
    ELSE setattr(state, name, changes_get(message, name))

\* The body of the loop of update for one field; nothing runs once a call
\* has raised.
update_field(state, name, message, paths, n) ==
    IF state.exc # "" \/ ~match_path(paths, name) THEN state
    ELSE IF name \in read_only_field_names THEN state
    ELSE IF name \in DOMAIN _relationships THEN
        IF Truthy(changes_get(message, name))
        THEN SetRelated(state, _relationships[name].name,
                        get(changes_get(message, name), n))
        ELSE setattr(state, name, "None")
    ELSE setattr(state, name, changes_get(message, name))

RECURSIVE update_fields(_, _, _, _, _)
update_fields(state, i, message, paths, n) ==
    IF i > Len(fields) THEN state
    ELSE update_fields(update_field(state, fields[i], message, paths, n),
                       i + 1, message, paths, n)

\* The flush of session.commit(): the foreign key follows a relationship
\* attribute that was set, and the relationship attribute, loaded again after
\* the commit, follows a foreign key that was set.
Flushed(e, row) ==
    IF e.owner # row.owner
    THEN [e EXCEPT !.owner_id = IF e.owner = "None" THEN "None" ELSE format_id(e.owner)]
    ELSE IF e.owner_id # row.owner_id
    THEN [e EXCEPT !.owner = IF e.owner_id = "None" THEN "None" ELSE Person(e.owner_id)]
    ELSE e

\* session.commit() and the except clause: IntegrityError when the name is
\* that of another row, then rollback, which loads the entity again.
Committed(state, row, names) ==
    IF state.exc # "" THEN [entity |-> state.entity, stored |-> row, outcome |-> state.exc]
    ELSE IF state.entity.name \in names
    THEN [entity |-> row, stored |-> row, outcome |-> "Conflict"]
    ELSE [entity |-> Flushed(state.entity, row), stored |-> Flushed(state.entity, row),
          outcome |-> "ok"]

update(e, message, paths, row, n, names) ==
    Committed(update_fields([entity |-> e, exc |-> ""], 1, message, paths, n), row, names)

\* The messages and masks of the calls.
Messages ==
    [id : {"unset", "5"}, name : {"unset", "'noodle'"}, owner_id : {"unset", "1", "2"}]
Paths == {"id", "name", "owner_id", "foo", "species"}

InitUpdate ==
    /\ rows = Table(<< >>)
    /\ page_size = 1
    /\ Built(<< [field |-> "name", ascending |-> "True"] >>)
    /\ tie_order = "insertion"
    /\ nulls = "first"
    /\ crafted = None
    /\ OneClient
    /\ NoWrite
    /\ Fresh
    /\ entity = Snek
    /\ stored = Snek
    /\ changes = NoChanges
    /\ mask = {}
    /\ outcome = ""
    /\ people = 0
    /\ taken \in {{}, {"'noodle'"}}

\* pet = resource.update(pet, changes, mask)
Called(message, paths, result) ==
    /\ changes' = message
    /\ mask' = paths
    /\ entity' = result.entity
    /\ stored' = result.stored
    /\ outcome' = result.outcome

Update ==
    /\ \E message \in Messages, paths \in SUBSET Paths :
          Called(message, paths, update(entity, message, paths, stored, people, taken))
    /\ UNCHANGED << people, taken, config, attributes, client, requests, writes >>

\* people.create(PersonEntity(name='foo'))
CreatePerson ==
    /\ people < MaxPeople
    /\ people' = people + 1
    /\ UNCHANGED << entity, stored, changes, mask, outcome, taken,
                    config, attributes, client, requests, writes >>

NextUpdate ==
    \/ Update
    \/ CreatePerson

SpecUpdate == InitUpdate /\ [][NextUpdate]_vars

\* The fields the latest call had to write, and the attributes they stand for.
FieldNames == { fields[i] : i \in 1..Len(fields) }
Written == { f \in FieldNames : match_path(mask', f) /\ f \notin read_only_field_names }
IsRelationship(f) == f \in DOMAIN _relationships
AttributesOf(f) == IF IsRelationship(f) THEN {f, _relationships[f].name} ELSE {f}
Returned == people' = people /\ outcome' = "ok"

\* C18: a call of update that returns changes only the attributes named by a
\* message field that the mask matches and that is not read-only; the id is
\* kept; a masked field that changes does not carry holds the default of the
\* message field afterwards.
UpdateByMask ==
    [][Returned =>
          /\ \A a \in Attributes : entity'[a] # entity[a] => a \in Written
          /\ entity'.id = entity.id
          /\ \A f \in Written : changes'[f] = "unset" => entity'[f] = default[f]
      ]_vars

\* C18, amended: a call of update that returns changes only the attributes of
\* the written fields, where a relationship field stands for the attribute of
\* its name and for the relationship attribute; the id is kept; a written
\* field that changes carries holds that value, or the row it refers to; one
\* that changes does not carry holds the default of the message field, or
\* None in both attributes when it is a relationship.
UpdateByMaskAndRelationship ==
    [][Returned =>
          /\ \A a \in Attributes :
                entity'[a] # entity[a] => \E f \in Written : a \in AttributesOf(f)
          /\ entity'.id = entity.id
          /\ \A f \in Written :
                IF IsRelationship(f) THEN
                    IF Truthy(changes_get(changes', f))
                    THEN /\ entity'[f] = changes'[f]
                         /\ entity'[_relationships[f].name] = Person(changes'[f])
                    ELSE /\ entity'[f] = "None"
                         /\ entity'[_relationships[f].name] = "None"
                ELSE entity'[f] = changes_get(changes', f)
      ]_vars

\* update(pet, PetEntity(id=5, owner_id=1), FieldMask(['id', 'name', 'owner_id',
\* 'foo'])) has returned: the owner is set, the name is the default and the id
\* is kept.
OwnerWrittenNameReset ==
    /\ outcome = "ok"
    /\ mask = {"id", "name", "owner_id", "foo"}
    /\ changes = [id |-> "5", name |-> "unset", owner_id |-> "1"]
    /\ entity = [id |-> "1", name |-> "''", owner_id |-> "1", owner |-> Person("1"),
                 species |-> "'snake'"]

\* ------------------------------------------------------------------------
\* The direction table
\* ------------------------------------------------------------------------

\* The rows of the table that the filter of paginate_query lets through for
\* the cursor c, counted on the table itself: all of them without a position,
\* else those strictly past the position in the direction of the query.
Past(c) ==
    { i \in 1..Len(rows) :
        \/ c.position = None
        \/ IF c.reverse # (ordering[1].ascending = "False")
           THEN StrLess(rows[i][ordering[1].field], c.position)
           ELSE StrLess(c.position, rows[i][ordering[1].field]) }

\* F: the range query had a row after the page_size rows of the page.
HasFollowing(c) == Cardinality(Past(c)) > c.offset + page_size

CameFrom(c) == c.position # None \/ c.offset > 0

TableOf(c, next, previous) ==
    /\ has_next = IF c.reverse THEN CameFrom(c) ELSE HasFollowing(c)
    /\ has_previous = IF c.reverse THEN HasFollowing(c) ELSE CameFrom(c)
    /\ (next = Return(None)) <=> ~has_next
    /\ (previous = Return(None)) <=> ~has_previous

\* C19: after paginate_query with the decoded cursor (offset, reverse,
\* position), a forward cursor has has_next = F and has_previous = (position
\* is not null or offset > 0), a reverse cursor has them the other way round,
\* and each getter returns null exactly when its flag is false.
DirectionTable ==
    (paginated /\ raised = "")
        => TableOf(Triple(cursor), get_next_token, get_previous_token)

\* A reverse cursor with an offset and no position has been paginated with a
\* row left over: both flags are set.
ReverseOffsetBothWays ==
    /\ paginated
    /\ raised = ""
    /\ cursor # NoCursor
    /\ cursor.reverse
    /\ cursor.position = None
    /\ cursor.offset > 0
    /\ has_next
    /\ has_previous

\* ------------------------------------------------------------------------
\* The scan of a run of ties
\* ------------------------------------------------------------------------

\* The number of items counted by a scan of items that starts at the first
\* one and stops at the first whose position differs from compare.
TieRun(items, compare) ==
    CHOOSE run \in 0..Len(items) :
        /\ \A i \in 1..run : _get_position_from_instance(items[i], ordering) = compare
        /\ run < Len(items)
              => _get_position_from_instance(items[run + 1], ordering) # compare

Flipped(reverse) == cursor # NoCursor /\ cursor.reverse = reverse /\ cursor.offset # 0

\* compare at the start of the scan of get_next_token and get_previous_token.
NextCompare ==
    IF Flipped(TRUE) THEN _get_position_from_instance(page[Len(page)], ordering)
    ELSE next_position
PreviousCompare ==
    IF Flipped(FALSE) THEN _get_position_from_instance(page[1], ordering)
    ELSE previous_position

\* The scan stops at an item of the page: the cursor of the claim, encoded.
Emitted(items, run, reverse) ==
    Return(encode_cursor(Cursor(run, reverse,
                                _get_position_from_instance(items[run + 1], ordering))))

Scanned(items, compare, reverse, returned) ==
    TieRun(items, compare) < Len(items)
        => returned = Emitted(items, TieRun(items, compare), reverse)

\* C20: with has_next set and a page item whose position differs from compare,
\* get_next_token returns the token of Cursor(number of items after the last
\* such item, reverse = false, position of that item), compare being
\* next_position, or the position of the last page item after a reverse cursor
\* with an offset; get_previous_token does the same from the first item on,
\* with previous_position, a forward cursor with an offset, and reverse = true.
TieRunScan ==
    (paginated /\ raised = "" /\ Len(page) > 0) =>
        /\ has_next => Scanned(Reversed(page), NextCompare, FALSE, get_next_token)
        /\ has_previous => Scanned(page, PreviousCompare, TRUE, get_previous_token)

\* After a reverse cursor with an offset, get_next_token has counted a tie at
\* the end of the page and stopped at the item before it.
TieCountedBeforeAnchor ==
    /\ Flipped(TRUE)
    /\ paginated
    /\ raised = ""
    /\ has_next
    /\ Len(page) > 1
    /\ TieRun(Reversed(page), NextCompare) > 0
    /\ TieRun(Reversed(page), NextCompare) < Len(page)
    /\ next_token = Emitted(Reversed(page), TieRun(Reversed(page), NextCompare), FALSE).val

\* ------------------------------------------------------------------------
\* The else clause of the scans
\* ------------------------------------------------------------------------

\* The scan of get_next_token has run over the whole page and found no item
\* whose position differs from compare.
AllTieNext ==
    /\ Flipped(TRUE) => Len(page) > 0
    /\ TieRun(Reversed(page), NextCompare) = Len(page)

\* The cursor of the claim for a page without a differing item.
NextFallback ==
    IF ~has_previous THEN Cursor(page_size, FALSE, None)
    ELSE IF cursor.reverse THEN Cursor(0, FALSE, previous_position)
    ELSE Cursor(cursor.offset + page_size, FALSE, previous_position)

\* C21: with has_next set and every item of the page tying with compare,
\* get_next_token returns the token of a forward cursor: (page_size, null)
\* without a previous page, else (0, previous_position) after a reverse
\* cursor, else (offset of the cursor + page_size, previous_position).
NextTokenFallback ==
    (paginated /\ raised = "" /\ has_next /\ AllTieNext)
        => get_next_token = Return(encode_cursor(NextFallback))

\* get_next_token has carried the offset of a forward cursor on over a page of
\* ties.
OffsetCarriedForward ==
    /\ paginated
    /\ raised = ""
    /\ has_next
    /\ has_previous
    /\ ~cursor.reverse
    /\ Len(page) > 0
    /\ AllTieNext
    /\ next_token = encode_cursor(Cursor(cursor.offset + page_size, FALSE, previous_position))

\* The scan of get_previous_token has run over the whole page and found no
\* item whose position differs from compare.
AllTiePrevious ==
    /\ Flipped(FALSE) => Len(page) > 0
    /\ TieRun(page, PreviousCompare) = Len(page)

\* The cursor of the claim as it is worded: offset 0 after a reverse cursor,
\* the offset carried on after a forward one.
PreviousFallbackAsNext ==
    IF ~has_next THEN Cursor(page_size, TRUE, None)
    ELSE IF cursor.reverse THEN Cursor(0, TRUE, next_position)
    ELSE Cursor(cursor.offset + page_size, TRUE, next_position)

\* The cursor with the two branches the other way round: the offset carried
\* on after a reverse cursor, offset 0 after a forward one.
PreviousFallback ==
    IF ~has_next THEN Cursor(page_size, TRUE, None)
    ELSE IF cursor.reverse THEN Cursor(cursor.offset + page_size, TRUE, next_position)
    ELSE Cursor(0, TRUE, next_position)

\* C22: with has_previous set and every item of the page tying with compare,
\* get_previous_token returns the token of a reverse cursor: (page_size, null)
\* without a next page, else (0, next_position) after a reverse cursor, else
\* (offset of the cursor + page_size, next_position).
PreviousTokenFallbackAsNext ==
    (paginated /\ raised = "" /\ has_previous /\ AllTiePrevious)
        => get_previous_token = Return(encode_cursor(PreviousFallbackAsNext))

\* C22, amended: the same with the last two cases exchanged: (offset of the
\* cursor + page_size, next_position) after a reverse cursor, else
\* (0, next_position).
PreviousTokenFallback ==
    (paginated /\ raised = "" /\ has_previous /\ AllTiePrevious)
        => get_previous_token = Return(encode_cursor(PreviousFallback))

\* get_previous_token has carried the offset of a reverse cursor on over a
\* page of ties.
OffsetCarriedBackward ==
    /\ paginated
    /\ raised = ""
    /\ has_next
    /\ has_previous
    /\ cursor.reverse
    /\ Len(page) > 0
    /\ AllTiePrevious
    /\ previous_token = encode_cursor(Cursor(cursor.offset + page_size, TRUE, next_position))
    /\ previous_token # encode_cursor(Cursor(0, TRUE, next_position))

\* ------------------------------------------------------------------------
\* The positional filter
\* ------------------------------------------------------------------------

\* The traversal of the cursor c runs upwards on the first ordering field: the
\* base ordering as order_by takes it, inverted for a reverse cursor.
Upwards(c) == Truthy(ordering[1].ascending) # c.reverse

\* The rows that come strictly after the anchor of c in that traversal; all
\* rows for a cursor without a position.
After(c) ==
    { i \in 1..Len(rows) :
        \/ c.position = None
        \/ IF Upwards(c)
           THEN StrLess(c.position, rows[i][ordering[1].field])
           ELSE StrLess(rows[i][ordering[1].field], c.position) }

Max(a, b) == IF a >= b THEN a ELSE b

PageOfKept(c) ==
    /\ \A k \in 1..Len(page) : \E i \in After(c) : rows[i] = page[k]
    /\ Len(page) = Min(page_size, Max(0, Cardinality(After(c)) - c.offset))

\* C23: the rows paginate_query keeps for a cursor with a position are exactly
\* those strictly after the anchor in the direction of the traversal (greater
\* for an ascending base ordering and a forward cursor or a descending one and
\* a reverse cursor, less otherwise), and all rows without a position: the
\* page holds page_size of them past the offset, as far as there are.
PositionalFilter ==
    (constructed = "ok" /\ paginated /\ raised = "") => PageOfKept(Triple(cursor))

\* ------------------------------------------------------------------------
\* The order of a page
\* ------------------------------------------------------------------------

\* a may stand before b in the base ordering: not after it on the primary
\* field.
NotAfter(a, b) ==
    IF Truthy(ordering[1].ascending)
    THEN ~StrLess(b[ordering[1].field], a[ordering[1].field])
    ELSE ~StrLess(a[ordering[1].field], b[ordering[1].field])

PageInBaseOrder == \A k \in 1..(Len(page) - 1) : NotAfter(page[k], page[k + 1])

\* C24: every page paginate_query returns, for a forward or a reverse cursor,
\* is in the base ordering on the primary field and is a run of consecutive
\* rows of the collection in the base ordering.
PresentationOrder ==
    (paginated /\ raised = "") => (PageInBaseOrder /\ IsRun(page))

\* ------------------------------------------------------------------------
\* A paginator used again
\* ------------------------------------------------------------------------

\* The paginator has the page and the flags of the paginator alone, and its
\* getters return what the getters of alone return.
SameAs(alone) ==
    /\ page = alone.page
    /\ has_next = alone.has_next
    /\ has_previous = alone.has_previous
    /\ get_next_token = TokenOf(alone, NextCursorOf(alone))
    /\ get_previous_token = TokenOf(alone, PreviousCursorOf(alone))

\* C25: after any sequence of calls on one paginator, what the latest
\* paginate_query(query, token) returned and left (page, has_next,
\* has_previous, and the tokens of both getters) is what a newly constructed
\* paginator gives for that token: no getter reads an attribute that an
\* earlier paginate_query assigned.
NoStateCarried ==
    (paginated /\ raised = "") => SameAs(Paginated(NewInstance, decode_cursor(token)))

\* The paginator holds a next_position of an earlier call that the latest
\* paginate_query did not assign (on a new paginator it is not set), and
\* get_previous_token has returned a token.
StalePositionKept ==
    /\ paginated
    /\ raised = ""
    /\ ~has_next
    /\ next_position # Unset
    /\ Paginated(NewInstance, decode_cursor(token)).next_position = Unset
    /\ previous_token \notin {Unset, None}

\* ------------------------------------------------------------------------
\* The getters after any token
\* ------------------------------------------------------------------------

\* C26: once paginate_query has returned, for any token that decodes and any
\* collection, get_next_token and get_previous_token each return a token or
\* null: neither raises.
GettersNeverRaise ==
    (paginated /\ raised = "")
        => (get_next_token.exc = "" /\ get_previous_token.exc = "")

\* ------------------------------------------------------------------------
\* Where a returned token leads
\* ------------------------------------------------------------------------

\* C27: a page fetched with a token that get_next_token or get_previous_token
\* returned, on a chain of such tokens from the null token, is not empty.
TokenLeadsSomewhere ==
    (paginated /\ raised = "" /\ via \in {"next", "previous"}) => Len(page) > 0

\* ------------------------------------------------------------------------
\* The forward walk of one client
\* ------------------------------------------------------------------------

\* The client follows at most this many next tokens.
MaxHops == 4

\* A run of ties that leaves more than a page after the offset cut-off.
LongerTable == Table([i \in 1..(2 * offset_cutoff + 2) |-> Str(<<"A">>)])

InitWalk ==
    /\ \/ rows \in Tables /\ page_size \in 1..MaxPageSize
       \/ rows = LongerTable /\ page_size = offset_cutoff + 1
    /\ \E given \in Orderings : Built(given)
    /\ tie_order \in {"insertion", "mirror"}
    /\ nulls = "first"
    /\ crafted = None
    /\ Constructed

\* The client starts with the null token.
WalkNull == ~paginated /\ PaginateNull

\* The client paginates with the next token it was given.
WalkNext == hops < MaxHops /\ PaginateNext

NextWalk ==
    \/ WalkNull
    \/ WalkNext
    \/ GetNextToken

SpecWalk == InitWalk /\ [][NextWalk]_vars

Ceil(n, d) == (n + d - 1) \div d

\* C28: a client that starts from the null token and follows the next tokens
\* has fetched at most ceil(n / page_size) pages (one for an empty
\* collection), so that it is given a null next token by then, and the page
\* it fetched is not the page it fetched before.
ForwardWalkTerminates ==
    (paginated /\ raised = "" /\ hops >= 0) =>
        /\ hops + 1 <= Max(1, Ceil(Len(rows), page_size))
        /\ hops >= 1 => trail[1].page # trail[2].page

\* ------------------------------------------------------------------------
\* Writes of other requests during a forward walk
\* ------------------------------------------------------------------------

\* At most this many rows are inserted or deleted during a walk.
MaxWrites == 2

\* The names of the rows that other requests insert.
WrittenNames == Names

\* The orderings of the paginators that walk: ascending, descending, and
\* the entry with the int 0 that the constructor keeps.
WriteOrderings ==
    Orderings \cup { << [field |-> "name", ascending |-> "0"] >> }

\* The anchor of the next token the client holds: the position of its
\* cursor, None when it holds no token or a token without a position.
Anchor ==
    IF next_token \in {Unset, None} THEN None
    ELSE decode_cursor(next_token).val.position

\* The value is not after the anchor in the base ordering.
NotAfterAnchor(value) ==
    /\ Anchor # None
    /\ IF Truthy(ordering[1].ascending) THEN ~StrLess(Anchor, value)
       ELSE ~StrLess(value, Anchor)

\* The collection before the writes made since the page was fetched.
Unmodified == IF written.hops = hops THEN written.unmodified ELSE rows

Wrote(collection, new) ==
    /\ written.count < MaxWrites
    /\ rows' = collection
    /\ written' = [unmodified |-> Unmodified, hops |-> hops,
                   count |-> written.count + 1,
                   id |-> written.id + new, first |-> written.first]
    /\ UNCHANGED << tie_order, nulls, page_size, ordering, crafted, model, argument,
                    constructed, attributes, client, requests, updates >>

\* Another request commits a new row.
Insert ==
    \E value \in WrittenNames :
        /\ NotAfterAnchor(value)
        /\ Wrote(Append(rows, [id |-> written.id, name |-> value]), 1)

\* Another request deletes a row.
Delete ==
    \E i \in 1..Len(rows) :
        /\ NotAfterAnchor(rows[i].name)
        /\ Wrote(SubSeq(rows, 1, i - 1) \o SubSeq(rows, i + 1, Len(rows)), 0)

\* The tables that leave room for one more row.
WriteTables == { t \in Tables : Len(t) < MaxRows }

InitWrites ==
    /\ rows \in WriteTables
    /\ page_size \in 1..MaxPageSize
    /\ \E given \in WriteOrderings : Built(given)
    /\ tie_order \in {"insertion", "mirror"}
    /\ nulls = "first"
    /\ crafted = None
    /\ Constructed

NextWrites ==
    \/ WalkNull
    \/ PaginateNext
    \/ GetNextToken
    \/ Insert
    \/ Delete

SpecWrites == InitWrites /\ [][NextWrites]_vars

\* The page of a forward cursor c on the collection rs.
PageOn(rs, c) ==
    Range(c, Filter(c, order_by(rs, convert_ordering_to_alchmey_clauses(ordering).val),
                    ordering[1])).page

\* The page came from a next token with an anchor, and rows were written
\* while the client held the token.
WrittenBeforePage ==
    /\ paginated /\ raised = "" /\ via = "next" /\ hops >= 1
    /\ written.hops = hops - 1
    /\ cursor.position # None /\ ~cursor.reverse

\* C29: when rows were inserted or deleted only at primary values not after
\* the anchor of a forward token with offset 0 while the client held it, the
\* page of the token is its page on the unmodified collection; and so is
\* every page of a forward walk fetched after such writes, whatever offset
\* its token carries, so that the writes make the walk skip or repeat no row
\* after the anchor.
KeysetStability ==
    /\ (WrittenBeforePage /\ cursor.offset = 0)
           => page = PageOn(written.unmodified, cursor)
    /\ (WrittenBeforePage /\ cursor.offset > 0)
           => page = PageOn(written.unmodified, cursor)

\* ------------------------------------------------------------------------
\* A forward walk over rows whose name is NULL
\* ------------------------------------------------------------------------

\* Pet.name is nullable: the names of the rows, and None for NULL.
NullableNames == Names \cup { None }

NullableTables ==
    UNION { {Table(ns) : ns \in [1..n -> NullableNames]} : n \in 0..(MaxRows - 1) }

InitNulls ==
    /\ rows \in NullableTables
    /\ page_size \in 1..MaxPageSize
    /\ \E given \in Orderings : Built(given)
    /\ tie_order \in {"insertion", "mirror"}
    /\ nulls \in {"first", "last"}
    /\ crafted = None
    /\ Constructed

NextNulls ==
    \/ WalkNull
    \/ PaginateNext
    \/ GetNextToken

SpecNulls == InitNulls /\ [][NextNulls]_vars

\* Some row of the collection has no name.
SomeNull == \E i \in 1..Len(rows) : rows[i].name = None

\* How many times the forward walk has returned the row.
Returns(row) == Cardinality({ k \in 1..Len(walked) : walked[k] = row })

\* The forward walk from the null token has come to its end.
WalkEnded == paginated /\ raised = "" /\ hops >= 0 /\ next_token = None

\* C30: when some rows of the collection have a null value in the primary
\* ordering field, the forward walk from the null token, once it has ended,
\* has returned every row of the collection exactly once.
NullRowsWalked ==
    (WalkEnded /\ SomeNull) => \A i \in 1..Len(rows) : Returns(rows[i]) = 1

====
